---- MODULE Spec2Model ----
(***************************************************************************)
(* Cross-border payments fee/FX calculator (src/app.py).                   *)
(*                                                                         *)
(* Numbers.  The program computes with Python floats.  Every literal of    *)
(* the program is a short decimal, so a float is modelled here by the      *)
(* exact decimal it stands for: a sign, the decimal digits (least          *)
(* significant first) and the number of fractional digits.  Sums and       *)
(* products are exact; the binary rounding error of a float (relative      *)
(* error about 1e-16 per operation) is the one thing the model leaves out. *)
(* Optional[float] is a sequence of length at most one: <<>> is None.      *)
(***************************************************************************)
EXTENDS Integers, Sequences, FiniteSets, TLC

\* ------------------------------------------------------------ decimals

Zero == [neg |-> FALSE, d |-> <<>>, e |-> 0]

RECURSIVE Digits(_)
Digits(n) == IF n = 0 THEN <<>> ELSE <<n % 10>> \o Digits(n \div 10)

RECURSIVE StripHigh(_)
StripHigh(d) ==
    IF d = <<>> THEN d
    ELSE IF d[Len(d)] # 0 THEN d
    ELSE StripHigh(SubSeq(d, 1, Len(d) - 1))

\* The canonical form: no leading zeros, no trailing fractional zeros, +0.
RECURSIVE Norm(_)
Norm(x) ==
    LET d == StripHigh(x.d) IN
    IF d = <<>> THEN Zero
    ELSE IF x.e > 0 /\ d[1] = 0
         THEN Norm([neg |-> x.neg, d |-> Tail(d), e |-> x.e - 1])
    ELSE [neg |-> x.neg, d |-> d, e |-> x.e]

\* The literal n * 10^-e, e.g. D(199, 2) is 1.99.
D(n, e) == Norm([neg |-> n < 0, d |-> Digits(IF n < 0 THEN -n ELSE n), e |-> e])

Pad(d, k) == [i \in 1..k |-> 0] \o d

RECURSIVE AddMag(_, _, _)
AddMag(a, b, c) ==
    IF a = <<>> /\ b = <<>> THEN (IF c = 0 THEN <<>> ELSE <<c>>)
    ELSE LET x == IF a = <<>> THEN 0 ELSE Head(a)
             y == IF b = <<>> THEN 0 ELSE Head(b)
             s == x + y + c
         IN  <<s % 10>> \o AddMag(IF a = <<>> THEN a ELSE Tail(a),
                                  IF b = <<>> THEN b ELSE Tail(b), s \div 10)

\* a - b - c for magnitudes with a >= b + c.
RECURSIVE SubMag(_, _, _)
SubMag(a, b, c) ==
    IF a = <<>> THEN <<>>
    ELSE LET y == IF b = <<>> THEN 0 ELSE Head(b)
             s == Head(a) - y - c
         IN  <<(s + 10) % 10>> \o SubMag(Tail(a), IF b = <<>> THEN b ELSE Tail(b),
                                         IF s < 0 THEN 1 ELSE 0)

RECURSIVE LtMagSame(_, _)
LtMagSame(a, b) ==
    IF a = <<>> THEN FALSE
    ELSE LET n == Len(a) IN
         IF a[n] # b[n] THEN a[n] < b[n]
         ELSE LtMagSame(SubSeq(a, 1, n - 1), SubSeq(b, 1, n - 1))

LtMag(a, b) ==
    LET x == StripHigh(a)
        y == StripHigh(b)
    IN  IF Len(x) # Len(y) THEN Len(x) < Len(y) ELSE LtMagSame(x, y)

RECURSIVE MulDigit(_, _, _)
MulDigit(a, k, c) ==
    IF a = <<>> THEN (IF c = 0 THEN <<>> ELSE <<c>>)
    ELSE LET s == Head(a) * k + c
         IN  <<s % 10>> \o MulDigit(Tail(a), k, s \div 10)

RECURSIVE MulMag(_, _)
MulMag(a, b) ==
    IF a = <<>> THEN <<>>
    ELSE AddMag(MulDigit(b, Head(a), 0), <<0>> \o MulMag(Tail(a), b), 0)

NegDec(x) == Norm([neg |-> ~x.neg, d |-> x.d, e |-> x.e])

AddDec(x, y) ==
    LET e == IF x.e > y.e THEN x.e ELSE y.e
        a == Pad(x.d, e - x.e)
        b == Pad(y.d, e - y.e)
    IN  IF x.neg = y.neg
        THEN Norm([neg |-> x.neg, d |-> AddMag(a, b, 0), e |-> e])
        ELSE IF LtMag(a, b)
             THEN Norm([neg |-> y.neg, d |-> SubMag(b, a, 0), e |-> e])
             ELSE Norm([neg |-> x.neg, d |-> SubMag(a, b, 0), e |-> e])

SubDec(x, y) == AddDec(x, NegDec(y))

MulDec(x, y) == Norm([neg |-> x.neg # y.neg, d |-> MulMag(x.d, y.d), e |-> x.e + y.e])

LtDec(x, y) == SubDec(x, y).neg

LeDec(x, y) == ~LtDec(y, x)

\* max(x, y) left out: the first argument as it is.
MaxDec_unclamped(x, y) == x

\* Python's max(x, y): y when y > x, else x.
MaxDec(x, y) == IF LtDec(x, y) THEN y ELSE x

\* x rounded to p fractional digits; ties go away from zero (halfUp) or to
\* the even neighbour.
Quantize(x, p, halfUp) ==
    IF x.e <= p THEN x
    ELSE LET k     == x.e - p
             n     == Len(x.d)
             kept  == IF k < n THEN SubSeq(x.d, k + 1, n) ELSE <<>>
             first == IF k <= n THEN x.d[k] ELSE 0
             rest  == \E i \in 1..(IF k - 1 < n THEN k - 1 ELSE n) : x.d[i] # 0
             odd   == kept # <<>> /\ kept[1] % 2 = 1
             up    == IF halfUp THEN first >= 5
                      ELSE first > 5 \/ (first = 5 /\ (rest \/ odd))
         IN  Norm([neg |-> x.neg,
                   d   |-> IF up THEN AddMag(kept, <<1>>, 0) ELSE kept,
                   e   |-> p])

\* ---------------------------------------------------------------- data

None == <<>>

Some(x) == <<x>>

\* Python truthiness of an Optional[float]: None and 0.0 are false.
Truthy(o) == o # None /\ o[1] # Zero

Rail(name, fixed_fee, variable_fee_pct, fx_spread_bps, eta, limit_min, limit_max) ==
    [name |-> name, fixed_fee |-> fixed_fee, variable_fee_pct |-> variable_fee_pct,
     fx_spread_bps |-> fx_spread_bps, est_delivery_hours |-> eta,
     send_limit_min |-> limit_min, send_limit_max |-> limit_max]

Corridor(src, dst, currency_src, currency_dst, rails) ==
    [src |-> src, dst |-> dst, currency_src |-> currency_src,
     currency_dst |-> currency_dst, rails |-> rails]

\* rails_standard with the keyword arguments some corridor overrides; the
\* others keep their defaults (agg 1.99 / 1.0% / 2h, card 2.79 / 1.3% / 4h,
\* swift 0.2%, min_send 10, SWIFT minimum 100 and maximum 50000).
rails_standard(agg_bps, card_bps, swift_bps, swift_fixed, swift_eta, max_agg, max_card) ==
    << Rail("Fintech Aggregator", D(199, 2), D(10, 3), agg_bps, 2,
            D(10, 0), max_agg),
       Rail("Card Network", D(279, 2), D(13, 3), card_bps, 4,
            D(10, 0), max_card),
       Rail("SWIFT", swift_fixed, D(2, 3), swift_bps, swift_eta,
            D(100, 0), D(50000, 0)) >>

\* rails_standard(agg_bps=.., card_bps=.., swift_bps=..), all else default.
rails_default(agg_bps, card_bps, swift_bps) ==
    rails_standard(agg_bps, card_bps, swift_bps, D(140, 1), 24, D(5000, 0), D(3000, 0))

\* rails_standard(0, 0, 0, swift_fixed=8.0): the dollarized corridors.
rails_dollarized ==
    rails_standard(0, 0, 0, D(80, 1), 24, D(5000, 0), D(3000, 0))

CORRIDORS ==
    << Corridor("United States", "Canada", "USD", "CAD", rails_default(70, 90, 30)),
       Corridor("United States", "Mexico", "USD", "MXN", rails_default(90, 120, 40)),
       Corridor("United States", "Guatemala", "USD", "GTQ", rails_default(120, 150, 55)),
       Corridor("United States", "Honduras", "USD", "HNL", rails_default(140, 170, 60)),
       Corridor("United States", "El Salvador", "USD", "USD", rails_dollarized),
       Corridor("United States", "Nicaragua", "USD", "NIO", rails_default(150, 180, 65)),
       Corridor("United States", "Costa Rica", "USD", "CRC", rails_default(120, 150, 50)),
       Corridor("United States", "Panama", "USD", "USD", rails_dollarized),
       Corridor("United States", "Dominican Republic", "USD", "DOP",
                rails_default(130, 160, 55)),
       Corridor("United States", "Jamaica", "USD", "JMD", rails_default(140, 170, 60)),
       Corridor("United States", "Haiti", "USD", "HTG", rails_default(180, 220, 80)),
       Corridor("United States", "Trinidad & Tobago", "USD", "TTD",
                rails_default(120, 150, 50)),
       Corridor("United States", "Colombia", "USD", "COP", rails_default(100, 130, 40)),
       Corridor("United States", "Peru", "USD", "PEN", rails_default(100, 130, 45)),
       Corridor("United States", "Chile", "USD", "CLP", rails_default(90, 120, 40)),
       Corridor("United States", "Argentina", "USD", "ARS",
                rails_standard(250, 300, 90, D(140, 1), 48, D(3000, 0), D(2000, 0))),
       Corridor("United States", "Brazil", "USD", "BRL", rails_default(120, 140, 50)),
       Corridor("United States", "Uruguay", "USD", "UYU", rails_default(110, 140, 45)),
       Corridor("United States", "Paraguay", "USD", "PYG", rails_default(140, 170, 60)),
       Corridor("United States", "Bolivia", "USD", "BOB", rails_default(120, 150, 50)),
       Corridor("United States", "Ecuador", "USD", "USD", rails_dollarized) >>

MID_RATES ==
    (<<"USD", "CAD">> :> D(130, 2)) @@ (<<"USD", "MXN">> :> D(1950, 2)) @@
    (<<"USD", "GTQ">> :> D(780, 2)) @@ (<<"USD", "HNL">> :> D(2460, 2)) @@
    (<<"USD", "USD">> :> D(100, 2)) @@ (<<"USD", "NIO">> :> D(3670, 2)) @@
    (<<"USD", "CRC">> :> D(51500, 2)) @@ (<<"USD", "DOP">> :> D(5900, 2)) @@
    (<<"USD", "JMD">> :> D(15600, 2)) @@ (<<"USD", "HTG">> :> D(13200, 2)) @@
    (<<"USD", "TTD">> :> D(680, 2)) @@ (<<"USD", "COP">> :> D(415000, 2)) @@
    (<<"USD", "PEN">> :> D(370, 2)) @@ (<<"USD", "CLP">> :> D(91000, 2)) @@
    (<<"USD", "ARS">> :> D(95000, 2)) @@ (<<"USD", "BRL">> :> D(510, 2)) @@
    (<<"USD", "UYU">> :> D(3900, 2)) @@ (<<"USD", "PYG">> :> D(740000, 2)) @@
    (<<"USD", "BOB">> :> D(690, 2))

\* A lookup that falls back to parity for a pair the table lacks.
mid_rate_default(src_ccy, dst_ccy) ==
    IF <<src_ccy, dst_ccy>> \in DOMAIN MID_RATES
    THEN Some(MID_RATES[<<src_ccy, dst_ccy>>])
    ELSE Some(D(1, 0))

\* A lookup with the key's currencies in the wrong order.
mid_rate_swapped(src_ccy, dst_ccy) ==
    IF <<dst_ccy, src_ccy>> \in DOMAIN MID_RATES
    THEN Some(MID_RATES[<<dst_ccy, src_ccy>>])
    ELSE None

\* MID_RATES.get((src_ccy, dst_ccy))
mid_rate(src_ccy, dst_ccy) ==
    IF <<src_ccy, dst_ccy>> \in DOMAIN MID_RATES
    THEN Some(MID_RATES[<<src_ccy, dst_ccy>>])
    ELSE None

\* ---------------------------------------------------------- validation

\* The validation with ge=0 in place of gt=0.
InputModel_ge(v) == LeDec(Zero, v)

\* InputModel(amount=v) constructs (TRUE) or raises "Amount must be > 0".
InputModel(v) == LtDec(Zero, v)

\* ------------------------------------------------------------- helpers

fmt_money(x, ccy) ==
    [symbol |-> IF ccy = "USD" THEN "$" ELSE "",
     q      |-> Quantize(x, 2, TRUE),
     ccy    |-> ccy]

\* The format specification :.4f
fmt_4f(x) == Quantize(x, 4, FALSE)

\* bps / 10000.0 taken as a percentage instead of a fraction.
bps_to_pct_percent(bps) == D(bps, 2)

bps_to_pct(bps) == D(bps, 4)

\* The fees with variable_fee_pct read as a percentage, as the comment on
\* Rail.variable_fee_pct ("0.9 for 0.9%") would have it.
fees_percent(amount, rail) ==
    LET variable_fee == MulDec(MulDec(amount, rail.variable_fee_pct), D(1, 2))
    IN  [variable_fee   |-> variable_fee,
         fixed_fee      |-> rail.fixed_fee,
         total_fees_src |-> AddDec(variable_fee, rail.fixed_fee)]

\* compute_quote, "# Fees"
fees(amount, rail) ==
    LET variable_fee == MulDec(amount, rail.variable_fee_pct)
        fixed_fee    == rail.fixed_fee
    IN  [variable_fee   |-> variable_fee,
         fixed_fee      |-> fixed_fee,
         total_fees_src |-> AddDec(variable_fee, fixed_fee)]

\* The FX branch without its same-currency case.
fx_always_spread(fx_principal, base_rate, spread_pct, src_ccy, dst_ccy) ==
    IF base_rate = None
    THEN [customer_rate |-> None, received_dst |-> None, fx_spread_cost_src |-> Zero]
    ELSE LET customer_rate == MulDec(base_rate[1], SubDec(D(1, 0), spread_pct))
         IN  [customer_rate      |-> Some(customer_rate),
              fx_spread_cost_src |-> MulDec(fx_principal,
                                            SubDec(base_rate[1], customer_rate)),
              received_dst       |-> Some(MulDec(fx_principal, customer_rate))]

\* The FX branch with the spread added to the mid rate instead of deducted.
fx_markup(fx_principal, base_rate, spread_pct, src_ccy, dst_ccy) ==
    IF base_rate = None
    THEN [customer_rate |-> None, received_dst |-> None, fx_spread_cost_src |-> Zero]
    ELSE LET customer_rate ==
                 IF src_ccy = dst_ccy THEN base_rate[1]
                 ELSE MulDec(base_rate[1], AddDec(D(1, 0), spread_pct))
         IN  [customer_rate      |-> Some(customer_rate),
              fx_spread_cost_src |->
                  IF src_ccy = dst_ccy THEN Zero
                  ELSE MulDec(fx_principal, SubDec(base_rate[1], customer_rate)),
              received_dst       |-> Some(MulDec(fx_principal, customer_rate))]

\* compute_quote, "# FX": the branch on base_rate and on the currencies.
fx(fx_principal, base_rate, spread_pct, src_ccy, dst_ccy) ==
    IF base_rate = None
    THEN [customer_rate |-> None, received_dst |-> None, fx_spread_cost_src |-> Zero]
    ELSE LET customer_rate ==
                 IF src_ccy = dst_ccy THEN base_rate[1]
                 ELSE MulDec(base_rate[1], SubDec(D(1, 0), spread_pct))
         IN  [customer_rate      |-> Some(customer_rate),
              fx_spread_cost_src |->
                  IF src_ccy = dst_ccy THEN Zero
                  ELSE MulDec(fx_principal, SubDec(base_rate[1], customer_rate)),
              received_dst       |-> Some(MulDec(fx_principal, customer_rate))]

compute_quote(amount, rail, src_ccy, dst_ccy) ==
    LET f            == fees(amount, rail)
        fx_principal == MaxDec(SubDec(amount, f.total_fees_src), Zero)
        base_rate    == mid_rate(src_ccy, dst_ccy)
        spread_pct   == bps_to_pct(rail.fx_spread_bps)
        x            == fx(fx_principal, base_rate, spread_pct, src_ccy, dst_ccy)
    IN  [rail               |-> rail.name,
         fixed_fee          |-> f.fixed_fee,
         variable_fee       |-> f.variable_fee,
         total_fees_src     |-> f.total_fees_src,
         fx_spread_bps      |-> rail.fx_spread_bps,
         fx_spread_cost_src |-> IF Truthy(base_rate) THEN x.fx_spread_cost_src ELSE Zero,
         rate_mid           |-> IF Truthy(base_rate) THEN base_rate[1] ELSE Zero,
         rate_customer      |-> IF Truthy(base_rate) THEN x.customer_rate ELSE Some(Zero),
         fx_principal       |-> fx_principal,
         received_dst       |-> IF Truthy(base_rate) THEN x.received_dst ELSE None,
         est_delivery_hours |-> rail.est_delivery_hours,
         limits             |-> <<rail.send_limit_min, rail.send_limit_max>>]

\* ------------------------------------------------------------ display

\* The limits warning of the script: f"{limits[0]:.0f}-{limits[1]:.0f} {ccy}".
limits_warning(rail, ccy) ==
    [rail |-> rail.name, lo |-> Quantize(rail.send_limit_min, 0, FALSE),
     hi |-> Quantize(rail.send_limit_max, 0, FALSE), ccy |-> ccy]

\* The st.info line of the script: the rates, or "No FX conversion required".
rates_info(quote) ==
    IF quote.rate_mid # Zero
    THEN [text |-> "Mid-market rate", rate_mid |-> Some(fmt_4f(quote.rate_mid)),
          rate_customer |-> Some(fmt_4f(quote.rate_customer[1])),
          eta |-> quote.est_delivery_hours]
    ELSE [text |-> "No FX conversion required", rate_mid |-> None,
          rate_customer |-> None, eta |-> quote.est_delivery_hours]

\* What ai_explain can return: the template without an API key, else the
\* service's text or, when the call raises, the fallback sentence.
ai_explain(use_ai) ==
    IF ~use_ai THEN {"template"}
    ELSE {"service text", "Explanation unavailable right now."}

\* Everything the script puts on the page for a quote.
display(quote, ccy_src, ccy_dst, explanation) ==
    [fixed_fee     |-> fmt_money(quote.fixed_fee, ccy_src),
     variable_fee  |-> fmt_money(quote.variable_fee, ccy_src),
     fx_spread_bps |-> quote.fx_spread_bps,
     total_fees    |-> fmt_money(quote.total_fees_src, ccy_src),
     fx_principal  |-> fmt_money(quote.fx_principal, ccy_src),
     received      |-> IF quote.received_dst # None
                       THEN Some(fmt_money(quote.received_dst[1], ccy_dst))
                       ELSE None,
     info          |-> rates_info(quote),
     table         |-> << fmt_money(quote.fixed_fee, ccy_src),
                          fmt_money(quote.variable_fee, ccy_src),
                          fmt_money(quote.fx_spread_cost_src, ccy_src) >>,
     explanation   |-> explanation]

\* --------------------------------------------------------------- bounds

\* The engine is exercised on the rails of the first MaxCorridors corridors.
MaxCorridors == 5

\* Amounts on a grid of 2500: -2500, 0, 2500, ..., 2500 * MaxGrid.
MaxGrid == 2

GridAmounts == {D(2500 * k, 0) : k \in -1..MaxGrid}

\* The amounts of the spec's scenarios, a few small ones, and the grid.
AnyAmounts == {D(5, 0), D(500, 0), D(1000, 0), D(10, 0), D(50, 0), D(-1, 2)} \cup GridAmounts

InputRails == {CORRIDORS[i].rails[j] : i \in 1..MaxCorridors, j \in 1..3}

\* USD/CAD, USD/MXN and USD/USD have a rate; no other pair of these has one.
InputCcys == {"USD", "CAD", "MXN", "VES"}

\* st.number_input(..., min_value=10.0, step=10.0, value=1000.0)
min_value == D(10, 0)

number_input_default == D(1000, 0)

WidgetAmounts == {a \in AnyAmounts : LeDec(min_value, a)}

\* ---------------------------------------------------------------- state

VARIABLES
    pc,          \* where the run is
    USE_AI,      \* whether the explanation service is configured
    src_choice,  \* the widgets' values
    dst_choice,
    amount,
    rail_choice,
    corridor,    \* the script's corridor and rail, once resolved
    rail,
    warning,     \* Some(limits warning) once st.warning has run
    call,        \* Some(arguments) of the compute_quote call
    quote,       \* Some(quote) the call returned
    shown,       \* Some(display) once the quote is on the page
    error        \* Some(text) once st.error has run

vars == <<pc, USE_AI, src_choice, dst_choice, amount, rail_choice, corridor, rail,
          warning, call, quote, shown, error>>

widgets == <<src_choice, dst_choice, amount, rail_choice>>

srcs == {CORRIDORS[i].src : i \in DOMAIN CORRIDORS}

dsts(src) == {CORRIDORS[i].dst : i \in {j \in DOMAIN CORRIDORS : CORRIDORS[j].src = src}}

rail_names == {"Fintech Aggregator", "Card Network", "SWIFT"}

\* next(c for c in CORRIDORS if c.src == src_choice and c.dst == dst_choice)
corridor_of(src, dst) ==
    LET hits == {i \in DOMAIN CORRIDORS : CORRIDORS[i].src = src /\ CORRIDORS[i].dst = dst}
    IN  CORRIDORS[CHOOSE i \in hits : \A j \in hits : i <= j]

\* next(r for r in corridor.rails if r.name == rail_choice)
rail_of(c, name) ==
    LET hits == {i \in DOMAIN c.rails : c.rails[i].name = name}
    IN  c.rails[CHOOSE i \in hits : \A j \in hits : i <= j]

Call(a, r, s, d) == [amount |-> a, rail |-> r, src_ccy |-> s, dst_ccy |-> d]

\* ------------------------------------------------- the script, step by step

\* Lines 219 and 226: the corridor and the rail the widgets name.
ScriptSelect ==
    /\ pc = "select"
    /\ corridor' = Some(corridor_of(src_choice, dst_choice))
    /\ rail' = Some(rail_of(corridor_of(src_choice, dst_choice), rail_choice))
    /\ pc' = "limits"
    /\ UNCHANGED <<USE_AI, widgets, warning, call, quote, shown, error>>

\* Lines 227-229: the advisory limits; the run goes on either way.
limits_exceeded(a, r) == LtDec(a, r.send_limit_min) \/ LtDec(r.send_limit_max, a)

\* The limits enforced: an amount outside them ends the run at the warning.
ScriptLimits_enforced ==
    /\ pc = "limits"
    /\ warning' = IF limits_exceeded(amount, rail[1])
                  THEN Some(limits_warning(rail[1], corridor[1].currency_src))
                  ELSE None
    /\ pc' = IF limits_exceeded(amount, rail[1]) THEN "done" ELSE "validate"
    /\ UNCHANGED <<USE_AI, widgets, corridor, rail, call, quote, shown, error>>

ScriptLimits ==
    /\ pc = "limits"
    /\ warning' = IF limits_exceeded(amount, rail[1])
                  THEN Some(limits_warning(rail[1], corridor[1].currency_src))
                  ELSE None
    /\ pc' = "validate"
    /\ UNCHANGED <<USE_AI, widgets, corridor, rail, call, quote, shown, error>>

\* Line 233, and lines 274-275 when InputModel raises.
ScriptValidate ==
    /\ pc = "validate"
    /\ IF InputModel(amount)
       THEN pc' = "compute" /\ error' = error
       ELSE pc' = "done" /\ error' = Some("ValidationError")
    /\ UNCHANGED <<USE_AI, widgets, corridor, rail, warning, call, quote, shown>>

\* Line 234.
ScriptCompute ==
    /\ pc = "compute"
    /\ call' = Some(Call(amount, rail[1], corridor[1].currency_src,
                         corridor[1].currency_dst))
    /\ quote' = Some(compute_quote(amount, rail[1], corridor[1].currency_src,
                                   corridor[1].currency_dst))
    /\ pc' = "display"
    /\ UNCHANGED <<USE_AI, widgets, corridor, rail, warning, shown, error>>

\* Lines 236-273.
ScriptDisplay ==
    /\ pc = "display"
    /\ \E text \in ai_explain(USE_AI) :
          shown' = Some(display(quote[1], corridor[1].currency_src,
                                corridor[1].currency_dst, text))
    /\ pc' = "done"
    /\ UNCHANGED <<USE_AI, widgets, corridor, rail, warning, call, quote, error>>

\* A changed widget reruns the script from the top on a cleared page.
Rerun ==
    /\ pc' = "select"
    /\ corridor' = None /\ rail' = None
    /\ warning' = None /\ call' = None /\ quote' = None /\ shown' = None /\ error' = None
    /\ UNCHANGED USE_AI

SetDst ==
    /\ pc = "done"
    /\ \E d \in dsts(src_choice) \ {dst_choice} : dst_choice' = d
    /\ UNCHANGED <<src_choice, amount, rail_choice>>
    /\ Rerun

SetAmount ==
    /\ pc = "done"
    /\ \E a \in WidgetAmounts \ {amount} : amount' = a
    /\ UNCHANGED <<src_choice, dst_choice, rail_choice>>
    /\ Rerun

SetRail ==
    /\ pc = "done"
    /\ \E r \in rail_names \ {rail_choice} : rail_choice' = r
    /\ UNCHANGED <<src_choice, dst_choice, amount>>
    /\ Rerun

Script == ScriptSelect \/ ScriptLimits \/ ScriptValidate \/ ScriptCompute \/ ScriptDisplay

\* The page as served: the first run, with every widget at its default.
InitUI ==
    /\ pc = "select"
    /\ USE_AI \in BOOLEAN
    /\ src_choice = "United States"
    /\ dst_choice = "Argentina"
    /\ amount = number_input_default
    /\ rail_choice = "Fintech Aggregator"
    /\ corridor = None /\ rail = None
    /\ warning = None /\ call = None /\ quote = None /\ shown = None /\ error = None

NextUI == Script \/ SetDst \/ SetAmount \/ SetRail

SpecUI == InitUI /\ [][NextUI]_vars

\* One run of the script from any corridor, rail and amount, amounts <= 0
\* included: what lines 226-275 do with a value that st.number_input, with
\* its min_value, does not itself hand over (SpecUI is the page as served).
InitBlock ==
    /\ pc = "select"
    /\ USE_AI \in BOOLEAN
    /\ src_choice \in srcs
    /\ dst_choice \in dsts(src_choice)
    /\ amount \in AnyAmounts
    /\ rail_choice \in rail_names
    /\ corridor = None /\ rail = None
    /\ warning = None /\ call = None /\ quote = None /\ shown = None /\ error = None

SpecBlock == InitBlock /\ [][Script]_vars

\* ------------------------------------------ the engine, called directly

\* compute_quote applied to the arguments in call.
Compute ==
    /\ pc = "input"
    /\ quote' = Some(compute_quote(call[1].amount, call[1].rail, call[1].src_ccy,
                                   call[1].dst_ccy))
    /\ pc' = "returned"
    /\ UNCHANGED <<USE_AI, widgets, corridor, rail, warning, call, shown, error>>

\* The returned quote put on the page as lines 236-273 do.
Display ==
    /\ pc = "returned"
    /\ \E text \in ai_explain(USE_AI) :
          shown' = Some(display(quote[1], call[1].src_ccy, call[1].dst_ccy, text))
    /\ pc' = "done"
    /\ UNCHANGED <<USE_AI, widgets, corridor, rail, warning, call, quote, error>>

\* The arguments of one direct call; the widgets play no part and keep
\* their defaults.
Init ==
    /\ pc = "input"
    /\ USE_AI \in BOOLEAN
    /\ src_choice = "United States"
    /\ dst_choice = "Argentina"
    /\ amount = number_input_default
    /\ rail_choice = "Fintech Aggregator"
    /\ call \in {Some(Call(a, r, s, d)) :
                    a \in AnyAmounts, r \in InputRails, s \in InputCcys, d \in InputCcys}
    /\ corridor = None /\ rail = None
    /\ warning = None /\ quote = None /\ shown = None /\ error = None

Next == Compute \/ Display

Spec == Init /\ [][Next]_vars

\* ---------------------------------------------------------------- claims

Known(s, d) == <<s, d>> \in DOMAIN MID_RATES

theCall == call[1]

theQuote == quote[1]

NoFxText == "No FX conversion required"

\* C1: the principal converted is max(amount - total fees, 0) and so never
\* negative; when the fees exceed the amount and the pair has a rate, the
\* principal is 0 and the amount received is 0, a value and not None.
C1_PrincipalClamped ==
    quote # None =>
        LET net == SubDec(theCall.amount, theQuote.total_fees_src) IN
        /\ ~theQuote.fx_principal.neg
        /\ theQuote.fx_principal = IF net.neg THEN Zero ELSE net
        /\ (LtDec(theCall.amount, theQuote.total_fees_src)
              /\ Known(theCall.src_ccy, theCall.dst_ccy))
           => (theQuote.fx_principal = Zero /\ theQuote.received_dst = Some(Zero))

\* Scenario C: 5 sent over a rail whose fixed fee is 14.0, quoted as 0 received.
C1_Witness ==
    /\ quote # None
    /\ theCall.amount = D(5, 0)
    /\ theCall.rail.fixed_fee = D(140, 1)
    /\ Known(theCall.src_ccy, theCall.dst_ccy)
    /\ theQuote.fx_principal = Zero
    /\ theQuote.received_dst = Some(Zero)

\* C2: for a same-currency pair that has a rate, the customer rate is the mid
\* rate, the spread cost is 0 whatever the rail's spread, and the amount
\* received is principal * mid rate.
C2_SameCurrency ==
    (quote # None /\ theCall.src_ccy = theCall.dst_ccy
       /\ Known(theCall.src_ccy, theCall.dst_ccy)) =>
        /\ theQuote.rate_mid = MID_RATES[<<theCall.src_ccy, theCall.dst_ccy>>]
        /\ theQuote.rate_customer = Some(theQuote.rate_mid)
        /\ theQuote.fx_spread_cost_src = Zero
        /\ theQuote.received_dst = Some(MulDec(theQuote.fx_principal, theQuote.rate_mid))

\* A USD to USD quote over a rail with a non-zero spread and a principal to convert.
C2_Witness ==
    /\ quote # None
    /\ theCall.src_ccy = "USD" /\ theCall.dst_ccy = "USD"
    /\ theCall.rail.fx_spread_bps > 0
    /\ theQuote.fx_principal # Zero
    /\ theQuote.rate_customer = Some(D(1, 0))

\* C3: for a pair of different currencies with mid rate R, the customer rate
\* is R * (1 - bps/10000), the spread cost is principal * (R - customer rate)
\* and the amount received is principal * customer rate.
C3_SpreadApplied ==
    (quote # None /\ theCall.src_ccy # theCall.dst_ccy
       /\ Known(theCall.src_ccy, theCall.dst_ccy)) =>
        LET R  == MID_RATES[<<theCall.src_ccy, theCall.dst_ccy>>]
            rc == MulDec(R, SubDec(D(1, 0), D(theCall.rail.fx_spread_bps, 4)))
        IN  /\ theQuote.rate_mid = R
            /\ theQuote.rate_customer = Some(rc)
            /\ theQuote.fx_spread_cost_src = MulDec(theQuote.fx_principal, SubDec(R, rc))
            /\ theQuote.received_dst = Some(MulDec(theQuote.fx_principal, rc))

\* A USD to CAD quote at 70 bps: 1.30 becomes 1.2909, with a principal to convert.
C3_Witness ==
    /\ quote # None
    /\ theCall.src_ccy = "USD" /\ theCall.dst_ccy = "CAD"
    /\ theCall.rail.fx_spread_bps = 70
    /\ theQuote.fx_principal # Zero
    /\ theQuote.rate_customer = Some(D(12909, 4))

\* C4 as stated: for a pair without a rate the quote returned has a
\* customer rate that is null, its received_dst null, its spread cost 0 and its
\* rate_mid 0.
C4_Original ==
    (quote # None /\ ~Known(theCall.src_ccy, theCall.dst_ccy)) =>
        /\ theQuote.rate_customer = None
        /\ theQuote.received_dst = None
        /\ theQuote.fx_spread_cost_src = Zero
        /\ theQuote.rate_mid = Zero

\* C4 as amended: for a pair without a rate the quote returned has a
\* customer rate of 0.0 (not null), its received_dst null, its spread cost 0
\* and its rate_mid 0.
C4_UnknownPair ==
    (quote # None /\ ~Known(theCall.src_ccy, theCall.dst_ccy)) =>
        /\ theQuote.rate_customer = Some(Zero)
        /\ theQuote.received_dst = None
        /\ theQuote.fx_spread_cost_src = Zero
        /\ theQuote.rate_mid = Zero

\* A quote returned for USD to VES, with a principal that a rate would convert.
C4_Witness ==
    /\ quote # None
    /\ theCall.src_ccy = "USD" /\ theCall.dst_ccy = "VES"
    /\ theQuote.fx_principal # Zero
    /\ theQuote.received_dst = None

\* C5: compute_quote is only ever called with an amount > 0; for an amount
\* <= 0 there is no call, no quote and nothing of a quote on the page, and
\* the run ends with the error message shown.
C5_ValidationFirst ==
    /\ call # None => LtDec(Zero, theCall.amount)
    /\ ~LtDec(Zero, amount) => (call = None /\ quote = None /\ shown = None)
    /\ (pc = "done" /\ ~LtDec(Zero, amount)) => error # None

\* A finished run on an amount <= 0: the error shown, no quote.
C5_Witness ==
    /\ pc = "done"
    /\ LeDec(amount, Zero)
    /\ error # None
    /\ shown = None

ScenarioA ==
    /\ call # None
    /\ theCall.amount = D(1000, 0)
    /\ theCall.rail.fixed_fee = D(199, 2)
    /\ theCall.rail.variable_fee_pct = D(10, 3)
    /\ theCall.rail.fx_spread_bps = 70
    /\ theCall.src_ccy = "USD" /\ theCall.dst_ccy = "CAD"

ScenarioAQuote ==
    /\ theQuote.rate_mid = D(130, 2)
    /\ theQuote.variable_fee = D(10, 0)
    /\ theQuote.total_fees_src = D(1199, 2)
    /\ theQuote.fx_principal = D(98801, 2)
    /\ theQuote.rate_customer = Some(D(12909, 4))
    /\ theQuote.received_dst = Some(MulDec(D(98801, 2), D(12909, 4)))

\* C7 as stated: scenario A yields variable fee 10.00, total fees 11.99,
\* principal 988.01, customer rate 1.2909 and 988.01 * 1.2909 received, shown
\* at two decimals as 1275.21.
C7_Original ==
    ScenarioA =>
        /\ quote # None => ScenarioAQuote
        /\ shown # None => shown[1].received = Some([symbol |-> "", q |-> D(127521, 2),
                                                     ccy |-> "CAD"])

\* C7 as amended: the same values, and 988.01 * 1.2909 = 1275.422109 is
\* shown at two decimals as 1275.42.
C7_ScenarioA ==
    ScenarioA =>
        /\ quote # None => ScenarioAQuote
        /\ shown # None => shown[1].received = Some([symbol |-> "", q |-> D(127542, 2),
                                                     ccy |-> "CAD"])

\* Scenario A quoted and on the page.
C7_Witness == ScenarioA /\ quote # None /\ shown # None

\* C8: the "No FX conversion required" message is shown only for a quote of
\* a same-currency pair, and never for a quote whose pair has no rate.
C8_NoFxOnlySameCurrency ==
    (shown # None /\ shown[1].info.text = NoFxText) =>
        (theCall.src_ccy = theCall.dst_ccy /\ Known(theCall.src_ccy, theCall.dst_ccy))

\* C9: a run on an amount > 0 outside the rail's limits shows the warning
\* and still ends with a quote on the page and no error; the quote of any run
\* is the same function of the amount and carries the rail's limits unchanged.
C9_LimitsAdvisory ==
    /\ (pc = "done" /\ LtDec(Zero, amount)
          /\ (LtDec(amount, rail[1].send_limit_min)
                \/ LtDec(rail[1].send_limit_max, amount))) =>
            (warning # None /\ error = None /\ call # None /\ theCall.amount = amount
               /\ quote # None /\ shown # None)
    /\ quote # None =>
        LET r   == rail[1]
            vf  == MulDec(amount, r.variable_fee_pct)
            tot == AddDec(vf, r.fixed_fee)
            net == SubDec(amount, tot)
            pr  == IF net.neg THEN Zero ELSE net
            R   == MID_RATES[<<corridor[1].currency_src, corridor[1].currency_dst>>]
            rc  == IF corridor[1].currency_src = corridor[1].currency_dst THEN R
                   ELSE MulDec(R, SubDec(D(1, 0), D(r.fx_spread_bps, 4)))
        IN  /\ theQuote.limits = <<r.send_limit_min, r.send_limit_max>>
            /\ theQuote.variable_fee = vf
            /\ theQuote.total_fees_src = tot
            /\ theQuote.fx_principal = pr
            /\ theQuote.rate_customer = Some(rc)
            /\ theQuote.received_dst = Some(MulDec(pr, rc))

\* 50 over SWIFT, below its minimum of 100: warned and quoted all the same.
C9_Witness ==
    /\ pc = "done"
    /\ amount = D(50, 0)
    /\ rail_choice = "SWIFT"
    /\ warning # None
    /\ shown # None
    /\ theQuote.limits = <<D(100, 0), D(50000, 0)>>

\* C10: no two corridors share (src, dst), every corridor's currency pair has
\* a positive rate, and so every quote of the page has a received amount and
\* a non-zero mid rate, and the page never takes the rate-unavailable branch.
C10_CorridorsQuotable ==
    /\ \A i, j \in DOMAIN CORRIDORS :
          (CORRIDORS[i].src = CORRIDORS[j].src /\ CORRIDORS[i].dst = CORRIDORS[j].dst)
             => i = j
    /\ \A i \in DOMAIN CORRIDORS :
          /\ Known(CORRIDORS[i].currency_src, CORRIDORS[i].currency_dst)
          /\ LtDec(Zero, MID_RATES[<<CORRIDORS[i].currency_src, CORRIDORS[i].currency_dst>>])
    /\ quote # None => (theQuote.received_dst # None /\ theQuote.rate_mid # Zero)
    /\ shown # None => shown[1].info.text # NoFxText

\* A quote for Paraguay (USD to PYG at 7400) on the page with its rates line.
C10_Witness ==
    /\ pc = "done"
    /\ dst_choice = "Paraguay"
    /\ quote # None /\ theQuote.received_dst # None
    /\ shown # None /\ shown[1].info.text = "Mid-market rate"

====
